---- MODULE Spec2Model ----
(***************************************************************************)
(* Ingestion pipeline of weaver: process_file (sentence chunker, record    *)
(* building, batch upsert) and prepare_record_for_upsert, after            *)
(* src/weaver/utils/embeddings.py.                                         *)
(*                                                                         *)
(* Python values are tagged so that None, strings and lists can be told    *)
(* apart: PyNone, Str(s), List(l).  A dict is a function whose DOMAIN is   *)
(* its key set; a link dict, whose iteration order matters, is a sequence  *)
(* of <<key, value>> pairs.                                                *)
(***************************************************************************)
EXTENDS Integers, Sequences, FiniteSets, TLC

VARIABLES
    pc,                 \* position of process_file / of the caller of prepare_record_for_upsert
    username,           \* process_file argument
    file_key,           \* process_file argument
    file_type,          \* process_file argument
    body_content,       \* file_obj['Body'], as the sentence sequence sent_tokenize finds in it
    doc_id,             \* str(ksuid())
    header,             \* header dict built by process_file
    sentences,          \* sent_tokenize(body_content)
    si,                 \* number of sentences the chunking loop has consumed
    chunks, chunk, num_tokens,
    chunk_no, records_to_upsert,
    index,              \* the vector index: set of stored records with their namespace
    errors_txt,         \* lines of the failure log errors.txt
    result,             \* outcome of process_file
    args,               \* arguments of a direct call of prepare_record_for_upsert
    s3,                 \* keys of the objects stored in the S3 bucket
    events,             \* what a handler and its background tasks did, in order
    fs,                 \* the files on disk: temporary uploads and transcriptions
    ret,                \* value that call returned
    db,                 \* the rows of the Postgres tables, in insertion order
    conns_out,          \* connections taken from the pool and not given back
    error_log,          \* messages written with logger.error
    request,            \* the request a handler is serving
    top_results,        \* rows fetched by the search query
    response            \* the HTTP response of the handler

vars == <<pc, username, file_key, file_type, body_content, doc_id, header, sentences, si,
          chunks, chunk, num_tokens, chunk_no, records_to_upsert, index, errors_txt,
          result, args, s3, events, fs, ret, db, conns_out, error_log, request, top_results, response>>

webVars == <<db, conns_out, error_log, request, top_results, response>>

procVars == <<username, file_key, file_type, body_content, doc_id, header, sentences, si,
              chunks, chunk, num_tokens, chunk_no, records_to_upsert, index, result>>

-----------------------------------------------------------------------------
(* Bounds *)

MaxSentences == 3
MaxChunkNo == 2
MaxResults == 3
MaxRows == 3
MaxGets == 2

(* Program constant *)

max_chunk_size == 256
top_k == 5
default_probes == 10
default_workers == 1

-----------------------------------------------------------------------------
(* Python values *)

PyNone == [kind |-> "none"]
Str(s) == [kind |-> "str", s |-> s]
List(l) == [kind |-> "list", l |-> l]
Pending == [kind |-> "pending"]

\* str(x) as used by f-strings and by str(publication_date_raw)
PyStr(x) == IF x = PyNone THEN "None" ELSE x.s

\* dict.get(key, None)
Get(d, key) == IF key \in DOMAIN d THEN d[key] ELSE PyNone

\* truth value of a Python object
Truthy(x) ==
    CASE x.kind = "none" -> FALSE
      [] x.kind = "str"  -> x.s # ""
      [] x.kind = "list" -> x.l # <<>>

\* any(x): some element is truthy (a character of a string always is)
PyAny(x) ==
    CASE x.kind = "str"  -> x.s # ""
      [] x.kind = "list" -> \E i \in 1..Len(x.l) : x.l[i] # ""

-----------------------------------------------------------------------------
(* External collaborators *)

\* The sentences a body can be made of, and len(tokenizer.tokenize(sentence))
Sentence == {"s100a", "s100b", "s100c", "s156", "s157", "s500", "s1"}

NumTokens(sentence) ==
    CASE sentence = "s100a" -> 100
      [] sentence = "s100b" -> 100
      [] sentence = "s100c" -> 100
      [] sentence = "s156"  -> 156
      [] sentence = "s157"  -> 157
      [] sentence = "s500"  -> 500
      [] sentence = "s1"    -> 1

\* model.encode([[instruction, chunk_text]]): a 2-D array with a single row
Encode(chunk_text) == [kind |-> "2d", rows |-> << <<Len(chunk_text), 1>> >>]

\* ' '.join(chunk)
RECURSIVE Join(_)
Join(c) ==
    IF c = <<>> THEN ""
    ELSE IF Len(c) = 1 THEN c[1]
    ELSE c[1] \o " " \o Join(Tail(c))

-----------------------------------------------------------------------------
(* validate_date *)

\* datetime.strptime(date_str, "%Y-%m-%d") succeeds: the directives take one
\* or two digits for month and day, and the values must form a real date
strptime_ok(date_str) == date_str \in {"2023-01-05", "2023-1-5"}

\* variant that returns the string without parsing it
validate_date_unchecked(date_str) == Str(date_str)

validate_date(date_str) == IF strptime_ok(date_str) THEN Str(date_str) ELSE PyNone

-----------------------------------------------------------------------------
(* prepare_record_for_upsert *)

\* key in link_dict, link_dict[key]
HasKey(link_dict, key) == \E i \in 1..Len(link_dict) : link_dict[i][1] = key
Lookup(link_dict, key) ==
    link_dict[CHOOSE i \in 1..Len(link_dict) : link_dict[i][1] = key][2]

\* key.lower()
Lower(key) ==
    CASE key = "Title"  -> "title"
      [] key = "Link"   -> "link"
      [] key = "Source" -> "source"
      [] OTHER          -> key

\* all (key, value) items of the link dicts, in iteration order
RECURSIVE Items(_)
Items(links) == IF links = <<>> THEN <<>> ELSE Head(links) \o Items(Tail(links))

\* next((value for ... if key.lower() == 'link'), None)
RECURSIVE FirstLink(_)
FirstLink(items) ==
    IF items = <<>> THEN PyNone
    ELSE IF Lower(Head(items)[1]) = "link" THEN Str(Head(items)[2])
    ELSE FirstLink(Tail(items))

\* np.array(embeddings), flattened when it is 2-D with a single row
embeddings_array(embeddings) ==
    IF embeddings.kind = "2d" /\ Len(embeddings.rows) = 1
    THEN [kind |-> "1d", vals |-> embeddings.rows[1]]
    ELSE embeddings

\* isinstance(embeddings_array.tolist(), list)
TolistIsList(arr) == arr.kind \in {"1d", "2d"}

\* embeddings_array.tolist()
ToList(arr) == IF arr.kind = "1d" THEN arr.vals ELSE arr.rows

\* header['links'][0]['Title'] if 'links' in header and 'Title' in header['links'][0] else None
base_title(hdr) ==
    IF "links" \in DOMAIN hdr /\ HasKey(hdr["links"].l[1], "Title")
    THEN Str(Lookup(hdr["links"].l[1], "Title"))
    ELSE PyNone

\* f"{base_title} Part {chunk_no}"
title(hdr, chunkNo) == PyStr(base_title(hdr)) \o " Part " \o ToString(chunkNo)

\* publication_date_raw after the list unwrapping of lines 29-31
publication_date_raw(hdr) ==
    LET raw == Get(hdr, "PublicationDate")
    IN  IF raw.kind = "list" THEN Str(raw.l[1]) ELSE raw

\* "x if x else 'unknown'"
OrUnknown(x) == IF Truthy(x) THEN x ELSE Str("unknown")

\* "x if x and any(x) else 'unknown'"
AnyOrUnknown(x) == IF Truthy(x) /\ PyAny(x) THEN x ELSE Str("unknown")

\* variant of PrepareRaises without the "doc_id is None" validation
PrepareRaises_no_doc_id_check(fileKey, hdr, chunkNo, embeddings, embeddings_text) ==
    \/ embeddings.kind = "unconvertible"
    \/ "links" \in DOMAIN hdr /\ hdr["links"].l = <<>>
    \/ Get(hdr, "PublicationDate").kind = "list" /\ Get(hdr, "PublicationDate").l = <<>>
    \/ ~TolistIsList(embeddings_array(embeddings))

\* the try block raises: np.array fails, header['links'][0] or
\* publication_date_raw[0] is out of range, or the type validation fails
PrepareRaises(fileKey, hdr, chunkNo, embeddings, embeddings_text) ==
    \/ embeddings.kind = "unconvertible"
    \/ "links" \in DOMAIN hdr /\ hdr["links"].l = <<>>
    \/ Get(hdr, "PublicationDate").kind = "list" /\ Get(hdr, "PublicationDate").l = <<>>
    \/ Get(hdr, "doc_id") = PyNone
    \/ ~TolistIsList(embeddings_array(embeddings))

\* the id of the returned record
RecordId(hdr, chunkNo) == Get(hdr, "doc_id")

\* the metadata dict of lines 45-53
Metadata(fileKey, hdr, chunkNo, embeddings_text) ==
    LET url == FirstLink(Items(IF "links" \in DOMAIN hdr THEN hdr["links"].l ELSE <<>>))
        publication_date == validate_date(PyStr(publication_date_raw(hdr)))
    IN  [Title           |-> OrUnknown(Str(title(hdr, chunkNo))),
         Filename        |-> OrUnknown(Str(fileKey)),
         URL             |-> OrUnknown(url),
         PublicationDate |-> OrUnknown(publication_date),
         Tags            |-> AnyOrUnknown(Get(hdr, "Tags")),
         Author          |-> AnyOrUnknown(Get(hdr, "Authors")),
         text            |-> OrUnknown(Str(embeddings_text))]

\* the value returned: the tuple (doc_id, embeddings_list, metadata), or None
prepare_record_for_upsert(fileKey, hdr, chunkNo, embeddings, embeddings_text) ==
    IF PrepareRaises(fileKey, hdr, chunkNo, embeddings, embeddings_text)
    THEN PyNone
    ELSE [id       |-> RecordId(hdr, chunkNo),
          values   |-> ToList(embeddings_array(embeddings)),
          metadata |-> Metadata(fileKey, hdr, chunkNo, embeddings_text)]

\* variant that writes the file_key to errors.txt on every call
PrepareErrorLines_always(fileKey, hdr, chunkNo, embeddings, embeddings_text) == <<fileKey>>

\* lines written to errors.txt by the except branch
PrepareErrorLines(fileKey, hdr, chunkNo, embeddings, embeddings_text) ==
    IF PrepareRaises(fileKey, hdr, chunkNo, embeddings, embeddings_text)
    THEN <<fileKey>> ELSE <<>>

-----------------------------------------------------------------------------
(* process_file *)

Usernames == {"alice", "bob@example.com"}
FileKeys == {"report.txt", "notes.v2.txt"}
FileTypes == {"text"}
DocIds == {"2TfKmW", "2TfKqZ"}

\* sequences of at most n sentences
Bodies(n) == UNION {[1..k -> Sentence] : k \in 0..n}

\* variants of the budget test: ">=" for ">", and a budget one token too large
Exceeds_ge(numTokens, n) == numTokens + n >= max_chunk_size
Exceeds_plus1(numTokens, n) == numTokens + n > max_chunk_size + 1

\* "num_tokens + len(sentence_tokens) > max_chunk_size"
Exceeds(numTokens, n) == numTokens + n > max_chunk_size

\* variant that forgets the chunk in progress when the loop ends
EmitLast_dropped(chunksSoFar, lastChunk) == chunksSoFar

\* the value of chunks after "if chunk: chunks.append(chunk)"
EmitLast(chunksSoFar, lastChunk) ==
    IF lastChunk # <<>> THEN Append(chunksSoFar, lastChunk) ELSE chunksSoFar

\* upsert of a batch under a namespace, keyed by record id
Upsert(idx, namespace, records) ==
    LET ids == {records[i].id : i \in 1..Len(records)}
        last(id) == records[CHOOSE i \in 1..Len(records) :
                              /\ records[i].id = id
                              /\ \A j \in (i+1)..Len(records) : records[j].id # id]
    IN  {e \in idx : ~(e.namespace = namespace /\ e.id \in ids)}
        \cup {[namespace |-> namespace, id |-> id, values |-> last(id).values,
               metadata |-> last(id).metadata] : id \in ids}

NoArgs == [kind |-> "nocall"]
NoRequest == [kind |-> "norequest"]
NoFiles == [temp |-> {}, transcriptions |-> <<>>]

Init ==
    /\ pc = "start"
    /\ username \in Usernames
    /\ file_key \in FileKeys
    /\ file_type \in FileTypes
    /\ body_content \in Bodies(MaxSentences)
    /\ doc_id = ""
    /\ header = [doc_id |-> PyNone]
    /\ sentences = <<>>
    /\ si = 0
    /\ chunks = <<>>
    /\ chunk = <<>>
    /\ num_tokens = 0
    /\ chunk_no = 0
    /\ records_to_upsert = <<>>
    /\ index = {}
    /\ errors_txt = <<>>
    /\ result = Pending
    /\ args = NoArgs
    /\ s3 = {}
    /\ events = <<>>
    /\ fs = NoFiles
    /\ ret = Pending
    /\ db = <<>>
    /\ conns_out = 0
    /\ error_log = <<>>
    /\ request = NoRequest
    /\ top_results = <<>>
    /\ response = Pending

\* lines 80-98: fresh doc_id, sentence segmentation, empty chunker state, header
Start ==
    /\ pc = "start"
    /\ \E d \in DocIds :
        /\ doc_id' = d
        /\ header' = [doc_id |-> Str(d), file_key |-> Str(file_key),
                      file_type |-> Str(file_type)]
    /\ sentences' = body_content
    /\ si' = 0
    /\ chunks' = <<>>
    /\ chunk' = <<>>
    /\ num_tokens' = 0
    /\ pc' = "chunking"
    /\ UNCHANGED <<username, file_key, file_type, body_content, chunk_no,
                   records_to_upsert, index, errors_txt, result, args, s3, events, fs, ret, webVars>>

\* lines 100-108: one iteration of the loop over the sentences
ChunkSentence ==
    /\ pc = "chunking"
    /\ si < Len(sentences)
    /\ LET sentence == sentences[si + 1]
           n == NumTokens(sentence)
       IN  IF Exceeds(num_tokens, n)
           THEN /\ chunks' = Append(chunks, chunk)
                /\ chunk' = <<sentence>>
                /\ num_tokens' = n
           ELSE /\ chunks' = chunks
                /\ chunk' = Append(chunk, sentence)
                /\ num_tokens' = num_tokens + n
    /\ si' = si + 1
    /\ UNCHANGED <<pc, username, file_key, file_type, body_content, doc_id, header,
                   sentences, chunk_no, records_to_upsert, index, errors_txt, result,
                   args, s3, events, fs, ret, webVars>>

\* lines 110-114: the loop is over; emit the last chunk, start record building
FinishChunking ==
    /\ pc = "chunking"
    /\ si = Len(sentences)
    /\ chunks' = EmitLast(chunks, chunk)
    /\ records_to_upsert' = <<>>
    /\ chunk_no' = 0
    /\ pc' = "building"
    /\ UNCHANGED <<username, file_key, file_type, body_content, doc_id, header,
                   sentences, si, chunk, num_tokens, index, errors_txt, result, args, s3, events, fs, ret, webVars>>

\* variant of ProcessChunk that numbers the chunks from 0
ProcessChunk_zero_based ==
    /\ pc = "building"
    /\ chunk_no < Len(chunks)
    /\ LET c == chunks[chunk_no + 1]
           chunk_text == Join(c)
           chunk_embedding == Encode(chunk_text)
           record == prepare_record_for_upsert(file_key, header, chunk_no,
                                               chunk_embedding, chunk_text)
       IN  /\ chunk' = c
           /\ chunk_no' = chunk_no + 1
           /\ errors_txt' = errors_txt \o PrepareErrorLines(file_key, header, chunk_no,
                                                            chunk_embedding, chunk_text)
           /\ records_to_upsert' = IF record # PyNone
                                   THEN Append(records_to_upsert, record)
                                   ELSE records_to_upsert
    /\ UNCHANGED <<pc, username, file_key, file_type, body_content, doc_id, header,
                   sentences, si, chunks, num_tokens, index, result, args, s3, events, fs, ret, webVars>>

\* lines 116-124: one iteration of the loop over the chunks
ProcessChunk ==
    /\ pc = "building"
    /\ chunk_no < Len(chunks)
    /\ LET c == chunks[chunk_no + 1]
           chunk_text == Join(c)
           chunk_embedding == Encode(chunk_text)
           record == prepare_record_for_upsert(file_key, header, chunk_no + 1,
                                               chunk_embedding, chunk_text)
       IN  /\ chunk' = c
           /\ chunk_no' = chunk_no + 1
           /\ errors_txt' = errors_txt \o PrepareErrorLines(file_key, header, chunk_no + 1,
                                                            chunk_embedding, chunk_text)
           /\ records_to_upsert' = IF record # PyNone
                                   THEN Append(records_to_upsert, record)
                                   ELSE records_to_upsert
    /\ UNCHANGED <<pc, username, file_key, file_type, body_content, doc_id, header,
                   sentences, si, chunks, num_tokens, index, result, args, s3, events, fs, ret, webVars>>

\* line 126, the index accepts the batch; line 128 returns the two empty lists
BatchUpsertOk ==
    /\ pc = "building"
    /\ chunk_no = Len(chunks)
    /\ records_to_upsert # <<>>
    /\ index' = Upsert(index, username, records_to_upsert)
    /\ result' = [kind |-> "return", local_corpus |-> <<>>, local_corpus_embeddings |-> <<>>]
    /\ pc' = "done"
    /\ UNCHANGED <<username, file_key, file_type, body_content, doc_id, header, sentences,
                   si, chunks, chunk, num_tokens, chunk_no, records_to_upsert, errors_txt,
                   args, s3, events, fs, ret, webVars>>

\* line 126, the index raises: one failure-log line per record, the error propagates
BatchUpsertFails ==
    /\ pc = "building"
    /\ chunk_no = Len(chunks)
    /\ records_to_upsert # <<>>
    /\ errors_txt' = errors_txt \o [i \in 1..Len(records_to_upsert) |-> file_key]
    /\ result' = [kind |-> "raise", exc |-> "Exception", error |-> "upsert failed"]
    /\ pc' = "done"
    /\ UNCHANGED <<username, file_key, file_type, body_content, doc_id, header, sentences,
                   si, chunks, chunk, num_tokens, chunk_no, records_to_upsert, index,
                   args, s3, events, fs, ret, webVars>>

\* line 126 with an empty batch: nothing is written, ValueError propagates
BatchUpsertEmpty ==
    /\ pc = "building"
    /\ chunk_no = Len(chunks)
    /\ records_to_upsert = <<>>
    /\ result' = [kind |-> "raise", exc |-> "ValueError", error |-> "no records to upsert"]
    /\ pc' = "done"
    /\ UNCHANGED <<username, file_key, file_type, body_content, doc_id, header, sentences,
                   si, chunks, chunk, num_tokens, chunk_no, records_to_upsert, index,
                   errors_txt, args, s3, events, fs, ret, webVars>>

\* line 119: model.encode raises for the next chunk; the exception leaves
\* process_file before anything is handed to the index
EncodeRaises ==
    /\ pc = "building"
    /\ chunk_no < Len(chunks)
    /\ chunk' = chunks[chunk_no + 1]
    /\ chunk_no' = chunk_no + 1
    /\ result' = [kind |-> "raise", exc |-> "RuntimeError", error |-> "encode failed"]
    /\ pc' = "raised"
    /\ UNCHANGED <<username, file_key, file_type, body_content, doc_id, header, sentences,
                   si, chunks, num_tokens, records_to_upsert, index, errors_txt,
                   args, s3, events, fs, ret, webVars>>

\* variant of ProcessorResponse that reports success whatever process_file did
ProcessorResponse_swallow(res) ==
    [status |-> 200, success |-> "Text processing complete",
     doc_id |-> List(<<>>), original_filename |-> List(<<>>)]

\* TextProcessor.process, lines 151-155 of routers/download.py: the two values
\* process_file returned are unpacked into doc_id and original_filename, a
\* ValueError becomes HTTPException(500, str(e)), any other exception is
\* answered by the framework with 500 Internal Server Error
ProcessorResponse(res) ==
    IF res.kind = "return"
    THEN [status |-> 200, success |-> "Text processing complete",
          doc_id |-> List(res.local_corpus),
          original_filename |-> List(res.local_corpus_embeddings)]
    ELSE IF res.exc = "ValueError"
    THEN [status |-> 500, detail |-> res.error]
    ELSE [status |-> 500, detail |-> "Internal Server Error"]

\* the handler answers once process_file has returned or raised
TextProcessorRespond ==
    /\ pc \in {"done", "raised"}
    /\ response' = ProcessorResponse(result)
    /\ pc' = "responded"
    /\ UNCHANGED <<procVars, errors_txt, args, s3, events, fs, ret, db, conns_out, error_log, request,
                   top_results>>

Next ==
    \/ Start
    \/ ChunkSentence
    \/ FinishChunking
    \/ ProcessChunk
    \/ EncodeRaises
    \/ BatchUpsertOk
    \/ BatchUpsertFails
    \/ BatchUpsertEmpty
    \/ TextProcessorRespond

Spec == Init /\ [][Next]_vars

-----------------------------------------------------------------------------
(* Direct calls of prepare_record_for_upsert on arbitrary headers *)

Absent == [kind |-> "absent"]

DocIdChoices == {Absent, Str("2TfKmW")}

LinksChoices ==
    {Absent,
     List(<<>>),
     List(<< <<>> >>),
     List(<< << <<"Title", "report">> >> >>),
     List(<< << <<"Title", "report">>, <<"link", "http://a.example">> >> >>),
     List(<< << <<"Link", "">> >>, << <<"link", "http://b.example">> >> >>),
     List(<< << <<"Source", "feed">> >>, << <<"Title", "other">>, <<"Link", "http://c.example">> >> >>)}

PublicationDateChoices ==
    {Absent, Str("2023-01-05"), Str("2023-1-5"), Str("05/01/2023"), Str(""),
     List(<<>>), List(<<"2023-01-05">>), List(<<"yesterday">>)}

TagsChoices == {Absent, List(<<>>), List(<<"">>), List(<<"security", "">>)}

AuthorsChoices == {Absent, List(<<"">>), List(<<"A. Writer">>)}

\* the header dict holding exactly the keys that were not chosen absent
MkHeader(d, l, p, t, a) ==
    LET all == [doc_id |-> d, links |-> l, PublicationDate |-> p, Tags |-> t, Authors |-> a]
    IN  [k \in {key \in DOMAIN all : all[key] # Absent} |-> all[k]]

Headers ==
    {MkHeader(d, l, p, t, a) : d \in DocIdChoices, l \in LinksChoices,
                               p \in PublicationDateChoices, t \in TagsChoices,
                               a \in AuthorsChoices}

EmbeddingsChoices ==
    {[kind |-> "2d", rows |-> << <<3, 1>> >>],
     [kind |-> "1d", vals |-> <<3, 1>>],
     [kind |-> "0d", val |-> 3],
     [kind |-> "unconvertible"]}

ArgSet ==
    [file_key : {"", "report.txt"}, header : Headers, chunk_no : 1..MaxChunkNo,
     embeddings : EmbeddingsChoices, embeddings_text : {"", "Some text."}]

InitPrepare ==
    /\ pc = "call"
    /\ args \in ArgSet
    /\ s3 = {}
    /\ events = <<>>
    /\ fs = NoFiles
    /\ ret = Pending
    /\ errors_txt = <<>>
    /\ username = ""
    /\ file_key = ""
    /\ file_type = ""
    /\ body_content = <<>>
    /\ doc_id = ""
    /\ header = [doc_id |-> PyNone]
    /\ sentences = <<>>
    /\ si = 0
    /\ chunks = <<>>
    /\ chunk = <<>>
    /\ num_tokens = 0
    /\ chunk_no = 0
    /\ records_to_upsert = <<>>
    /\ index = {}
    /\ result = Pending
    /\ db = <<>>
    /\ conns_out = 0
    /\ error_log = <<>>
    /\ request = NoRequest
    /\ top_results = <<>>
    /\ response = Pending

\* lines 16-63: the call returns a record or None; the except branch logs file_key
CallPrepare ==
    /\ pc = "call"
    /\ ret' = prepare_record_for_upsert(args.file_key, args.header, args.chunk_no,
                                        args.embeddings, args.embeddings_text)
    /\ errors_txt' = errors_txt \o PrepareErrorLines(args.file_key, args.header, args.chunk_no,
                                                     args.embeddings, args.embeddings_text)
    /\ pc' = "returned"
    /\ UNCHANGED <<procVars, args, s3, events, fs, webVars>>

NextPrepare == CallPrepare

SpecPrepare == InitPrepare /\ [][NextPrepare]_vars

-----------------------------------------------------------------------------
(* Properties of the chunker *)

RECURSIVE Flatten(_)
Flatten(cs) == IF cs = <<>> THEN <<>> ELSE Head(cs) \o Flatten(Tail(cs))

RECURSIVE TokenSum(_)
TokenSum(c) == IF c = <<>> THEN 0 ELSE NumTokens(Head(c)) + TokenSum(Tail(c))

Chunked == pc \in {"building", "done"}

\* C1: each step of the chunking loop appends the sentence to the current
\* chunk exactly when num_tokens plus its token count is <= max_chunk_size, and
\* otherwise closes the current chunk and starts a new one holding only that
\* sentence, with the count reset to its token count; token counts 100, 100,
\* 100 give the chunks [s1, s2], [s3].
C1_Scenario ==
    (Chunked /\ body_content = <<"s100a", "s100b", "s100c">>)
        => chunks = << <<"s100a", "s100b">>, <<"s100c">> >>

C1_Step ==
    (pc = "chunking" /\ si' = si + 1) =>
        LET s == sentences[si + 1]
            n == NumTokens(s)
        IN  IF num_tokens + n <= 256
            THEN chunk' = Append(chunk, s) /\ chunks' = chunks /\ num_tokens' = num_tokens + n
            ELSE chunks' = Append(chunks, chunk) /\ chunk' = <<s>> /\ num_tokens' = n

C1_ChunkerRule == [](C1_Scenario) /\ [][C1_Step]_vars

C1_Witness ==
    /\ pc = "done"
    /\ body_content = <<"s100a", "s100b", "s100c">>
    /\ chunks = << <<"s100a", "s100b">>, <<"s100c">> >>

\* C2: a sentence with more than max_chunk_size tokens is alone in its chunk,
\* wherever it occurs, and a document of exactly one such sentence yields
\* exactly one chunk, holding that sentence.
C2_OversizedAlone ==
    Chunked =>
        /\ \A i \in 1..Len(chunks) :
              (\E j \in 1..Len(chunks[i]) : NumTokens(chunks[i][j]) > 256)
                  => Len(chunks[i]) = 1
        /\ (Len(body_content) = 1 /\ NumTokens(body_content[1]) > 256)
              => chunks = <<body_content>>

\* C3: the sentences of the chunks, concatenated in chunk order, are the input
\* sentence sequence; while the loop runs, the chunks closed so far followed by
\* the chunk in progress are the sentences consumed so far.
C3_Concatenation ==
    /\ Chunked => Flatten(chunks) = body_content
    /\ pc = "chunking" => Flatten(chunks) \o chunk = SubSeq(sentences, 1, si)

C3_Witness ==
    /\ pc = "done"
    /\ Len(body_content) = 3
    /\ Len(chunks) >= 2
    /\ Len(chunks[Len(chunks)]) = 1

\* C4: the token counts of the sentences of every chunk sum to at most
\* max_chunk_size, unless the chunk is a single sentence that alone exceeds it.
C4_ChunkBound ==
    \A i \in 1..Len(chunks) :
        \/ TokenSum(chunks[i]) <= 256
        \/ Len(chunks[i]) = 1 /\ NumTokens(chunks[i][1]) > 256

C4_Witness ==
    /\ pc = "done"
    /\ \E i \in 1..Len(chunks) : Len(chunks[i]) = 2 /\ TokenSum(chunks[i]) = 256
    /\ \E i \in 1..Len(chunks) : TokenSum(chunks[i]) > 256

\* C5: the chunks of a document are numbered 1..N in document order, and the
\* j-th record of the batch is the one built for chunk j: its Title carries
\* "Part j" and its text is the text of the j-th chunk.
C5_ChunkNumbering ==
    Chunked =>
        /\ chunk_no \in 0..Len(chunks)
        /\ pc = "done" => chunk_no = Len(chunks)
        /\ Len(records_to_upsert) = chunk_no
        /\ \A j \in 1..Len(records_to_upsert) :
              /\ records_to_upsert[j].metadata.Title
                    = Str(PyStr(base_title(header)) \o " Part " \o ToString(j))
              /\ records_to_upsert[j].metadata.text = OrUnknown(Str(Join(chunks[j])))

C5_Witness ==
    /\ pc = "done"
    /\ Len(chunks) = 3
    /\ Len(records_to_upsert) = 3

-----------------------------------------------------------------------------
(* Properties of the record builder *)

Returned == pc = "returned"

\* the call has nothing to fail on but, possibly, a missing doc_id
Convertible(a) ==
    /\ a.embeddings.kind \in {"1d", "2d"}
    /\ "links" \in DOMAIN a.header => a.header["links"].l # <<>>
    /\ Get(a.header, "PublicationDate") # List(<<>>)

\* C6: with a doc_id in header, the record built for chunk number chunk_no has
\* the id "{doc_id}-{chunk_no}".
C6_RecordId ==
    (Returned /\ "doc_id" \in DOMAIN args.header /\ ret # PyNone)
        => ret.id = Str(args.header["doc_id"].s \o "-" \o ToString(args.chunk_no))

\* C7: the records of the batch built for one document have pairwise distinct
\* ids, so the index holds one record per built chunk after the upsert.
C7_DistinctIds ==
    /\ Chunked =>
          \A i, j \in 1..Len(records_to_upsert) :
              i # j => records_to_upsert[i].id # records_to_upsert[j].id
    /\ (pc = "done" /\ result.kind = "return")
          => Cardinality(index) = Len(records_to_upsert)

MetadataKeys == {"Title", "Filename", "URL", "PublicationDate", "Tags", "Author", "text"}

\* the header carries no usable title, link, date, tags or authors
NoTitle(h) == "links" \notin DOMAIN h \/ ~HasKey(h["links"].l[1], "Title")
NoLink(h) ==
    \/ "links" \notin DOMAIN h
    \/ \A i \in 1..Len(h["links"].l) : \A k \in 1..Len(h["links"].l[i]) :
          h["links"].l[i][k][1] \notin {"link", "Link"}
NoDate(h) ==
    \/ "PublicationDate" \notin DOMAIN h
    \/ h["PublicationDate"] \in {Str(""), Str("05/01/2023"), List(<<"yesterday">>)}
NoList(h, key) == key \notin DOMAIN h \/ h[key] = List(<<>>)

\* C9: the metadata of every returned record has the seven keys, no value is
\* None, and each value whose input is absent, empty or invalid is "unknown".
C9_MetadataComplete ==
    (Returned /\ ret # PyNone) =>
        /\ DOMAIN ret.metadata = MetadataKeys
        /\ \A k \in MetadataKeys : ret.metadata[k] # PyNone
        /\ NoTitle(args.header) => ret.metadata.Title = Str("unknown")
        /\ args.file_key = "" => ret.metadata.Filename = Str("unknown")
        /\ NoLink(args.header) => ret.metadata.URL = Str("unknown")
        /\ NoDate(args.header) => ret.metadata.PublicationDate = Str("unknown")
        /\ NoList(args.header, "Tags") => ret.metadata.Tags = Str("unknown")
        /\ NoList(args.header, "Authors") => ret.metadata.Author = Str("unknown")
        /\ args.embeddings_text = "" => ret.metadata.text = Str("unknown")

\* basename of the file key with its extension stripped
Stem(fileKey) ==
    CASE fileKey = "report.txt"   -> "report"
      [] fileKey = "notes.v2.txt" -> "notes.v2"
      [] fileKey = ""             -> ""

\* C10: the Title of a record is "{basename(file_key)} Part {chunk_no}", the
\* extension of file_key stripped.
C10_TitleFromFileKey ==
    (Returned /\ ret # PyNone /\ args.file_key # "")
        => ret.metadata.Title
              = Str(Stem(args.file_key) \o " Part " \o ToString(args.chunk_no))

\* the ingestion date the claim speaks of
Today == "2026-11-01"

\* the date string a header carries: the value, or the first element of a list
DateGiven(h) ==
    LET raw == Get(h, "PublicationDate")
    IN  IF raw.kind = "list" THEN Str(raw.l[1]) ELSE raw

\* C11 as stated: a PublicationDate of the form YYYY-MM-DD is stored
\* unchanged, otherwise the stored PublicationDate is the current date, and the
\* record is produced either way.
C11_DateOrToday ==
    (Returned /\ "doc_id" \in DOMAIN args.header /\ Convertible(args)) =>
        /\ ret # PyNone
        /\ IF DateGiven(args.header) = Str("2023-01-05")
           THEN ret.metadata.PublicationDate = Str("2023-01-05")
           ELSE ret.metadata.PublicationDate = Str(Today)

\* C11: a PublicationDate that strptime parses with %Y-%m-%d (zero-padded or
\* not) is stored unchanged; an absent or unparsable one is stored as
\* "unknown", and the record is produced either way; an empty list as
\* PublicationDate yields no record.
C11_DateOrUnknown ==
    /\ (Returned /\ "doc_id" \in DOMAIN args.header /\ Convertible(args)) =>
          /\ ret # PyNone
          /\ IF DateGiven(args.header) \in {Str("2023-01-05"), Str("2023-1-5")}
             THEN ret.metadata.PublicationDate = DateGiven(args.header)
             ELSE ret.metadata.PublicationDate = Str("unknown")
    /\ (Returned /\ Get(args.header, "PublicationDate") = List(<<>>)) => ret = PyNone

C11_Witness ==
    /\ Returned
    /\ ret # PyNone
    /\ DateGiven(args.header) = Str("05/01/2023")
    /\ ret.metadata.PublicationDate = Str("unknown")

\* C12: the call returns None only when the embedding cannot be turned into a
\* list; missing or empty optional metadata, an empty links list included,
\* never costs the record.
C12_RecordUnlessStructural ==
    (Returned /\ "doc_id" \in DOMAIN args.header /\ args.embeddings.kind \in {"1d", "2d"})
        => ret # PyNone

-----------------------------------------------------------------------------
(* Properties of the batch upsert and of the handler's answer *)

Finished == pc \in {"done", "responded"}

UpsertFailed == result.kind = "raise" /\ result.error = "upsert failed"

\* C13: when the index raises on the batch of n records the failure log gains
\* exactly n lines, each the file_key, nothing is written or retried and the
\* caller gets an error; an ingestion whose upsert succeeds leaves the failure
\* log as it was.
C13_LogInv ==
    Finished =>
        /\ UpsertFailed =>
              /\ errors_txt = [i \in 1..Len(records_to_upsert) |-> file_key]
              /\ index = {}
              /\ pc = "responded" => response.status = 500
        /\ result.kind = "return" => errors_txt = <<>>

C13_Step ==
    (pc = "building" /\ pc' = "done") =>
        IF result'.kind = "raise" /\ result'.error = "upsert failed"
        THEN /\ Len(errors_txt') = Len(errors_txt) + Len(records_to_upsert)
             /\ SubSeq(errors_txt', 1, Len(errors_txt)) = errors_txt
             /\ \A i \in (Len(errors_txt) + 1)..Len(errors_txt') : errors_txt'[i] = file_key
             /\ index' = index
        ELSE errors_txt' = errors_txt

C13_FailureLog == [](C13_LogInv) /\ [][C13_Step]_vars

C13_Witness ==
    /\ pc = "responded"
    /\ UpsertFailed
    /\ Len(records_to_upsert) = 3
    /\ errors_txt = <<file_key, file_key, file_key>>
    /\ response.status = 500

\* C14: when chunking and record building leave zero records, process_file
\* raises "no records to upsert", nothing is written to the index, and the
\* upload handler answers with an error, never with success.
EncodeFailed == result.kind = "raise" /\ result.error = "encode failed"

C14_NoRecords ==
    (Finished /\ ~EncodeFailed /\ records_to_upsert = <<>>) =>
        /\ result.kind = "raise"
        /\ result.error = "no records to upsert"
        /\ index = {}
        /\ pc = "responded" =>
              /\ response.status = 500
              /\ response.detail = "no records to upsert"

C14_Witness ==
    /\ pc = "responded"
    /\ body_content = <<>>
    /\ records_to_upsert = <<>>
    /\ response.status = 500

-----------------------------------------------------------------------------
(* The per-chunk pipeline: process_file of routers/upload.py with             *)
(* insert_into_db of build/lib/weaver/utils/db.py.  A user name is a sequence *)
(* of characters here, so that str.replace can be computed.                  *)

\* s.replace('@', '__').replace('.', '_')
RECURSIVE TableName(_)
TableName(u) ==
    IF u = <<>> THEN <<>>
    ELSE (CASE Head(u) = "@" -> <<"_", "_">>
            [] Head(u) = "." -> <<"_">>
            [] OTHER         -> <<Head(u)>>) \o TableName(Tail(u))

UploadUsers == {<<"u", "1">>, <<"a", ".", "b", "@", "c", ".", "d", "e">>}

\* the row one INSERT adds; owner is not a column: it records for whom the
\* upload ran
Row(user, fileKey, metadata, embeddings, embeddings_text) ==
    [table           |-> TableName(user),
     owner           |-> user,
     filename        |-> fileKey,
     metadata        |-> metadata,
     embeddings      |-> ToList(embeddings_array(embeddings)),
     embeddings_text |-> embeddings_text]

InitUpload ==
    /\ pc = "start"
    /\ username \in UploadUsers
    /\ file_key \in FileKeys
    /\ file_type \in FileTypes
    /\ body_content \in Bodies(MaxSentences)
    /\ doc_id = ""
    /\ header = [doc_id |-> PyNone]
    /\ sentences = <<>>
    /\ si = 0
    /\ chunks = <<>>
    /\ chunk = <<>>
    /\ num_tokens = 0
    /\ chunk_no = 0
    /\ records_to_upsert = <<>>
    /\ index = {}
    /\ errors_txt = <<>>
    /\ result = Pending
    /\ args = NoArgs
    /\ s3 = {}
    /\ events = <<>>
    /\ fs = NoFiles
    /\ ret = Pending
    /\ db = <<>>
    /\ conns_out = 0
    /\ error_log = <<>>
    /\ request = NoRequest
    /\ top_results = <<>>
    /\ response = Pending

\* upload.py lines 249-254 with insert_into_db succeeding: the row is inserted
\* and committed, the connection goes back to the pool.  chunk_no counts the
\* chunks the loop has taken.
InsertChunkOk ==
    /\ pc = "building"
    /\ chunk_no < Len(chunks)
    /\ LET c == chunks[chunk_no + 1]
           chunk_text == Join(c)
       IN  /\ chunk' = c
           /\ db' = Append(db, Row(username, file_key, header, Encode(chunk_text), chunk_text))
    /\ chunk_no' = chunk_no + 1
    /\ UNCHANGED <<pc, username, file_key, file_type, body_content, doc_id, header,
                   sentences, si, chunks, num_tokens, records_to_upsert, index, errors_txt,
                   result, args, s3, events, fs, ret, conns_out, error_log, request, top_results, response>>

\* upload.py lines 249-256 with the INSERT raising: insert_into_db re-raises
\* without giving the connection back, process_file logs and goes on with the
\* next chunk
InsertChunkFails ==
    /\ pc = "building"
    /\ chunk_no < Len(chunks)
    /\ chunk' = chunks[chunk_no + 1]
    /\ chunk_no' = chunk_no + 1
    /\ conns_out' = conns_out + 1
    /\ error_log' = Append(error_log, "File corrupted: " \o file_key)
    /\ UNCHANGED <<pc, username, file_key, file_type, body_content, doc_id, header,
                   sentences, si, chunks, num_tokens, records_to_upsert, index, errors_txt,
                   result, args, s3, events, fs, ret, db, request, top_results, response>>

\* upload.py line 251: model.encode raises outside the try, the exception
\* leaves process_file and the rows already inserted stay
EncodeRaisesUpload ==
    /\ pc = "building"
    /\ chunk_no < Len(chunks)
    /\ chunk' = chunks[chunk_no + 1]
    /\ chunk_no' = chunk_no + 1
    /\ result' = [kind |-> "raise", exc |-> "RuntimeError", error |-> "encode failed"]
    /\ pc' = "raised"
    /\ UNCHANGED <<username, file_key, file_type, body_content, doc_id, header, sentences,
                   si, chunks, num_tokens, records_to_upsert, index, errors_txt,
                   args, s3, events, fs, ret, webVars>>

\* upload.py line 258
ReturnUpload ==
    /\ pc = "building"
    /\ chunk_no = Len(chunks)
    /\ result' = [kind |-> "return", local_corpus |-> <<>>, local_corpus_embeddings |-> <<>>]
    /\ pc' = "done"
    /\ UNCHANGED <<username, file_key, file_type, body_content, doc_id, header, sentences,
                   si, chunks, chunk, num_tokens, chunk_no, records_to_upsert, index,
                   errors_txt, args, s3, events, fs, ret, webVars>>

NextUpload ==
    \/ Start
    \/ ChunkSentence
    \/ FinishChunking
    \/ InsertChunkOk
    \/ InsertChunkFails
    \/ EncodeRaisesUpload
    \/ ReturnUpload

SpecUpload == InitUpload /\ [][NextUpload]_vars

\* an ingestion ended, and embedding or writing of some chunk had raised
IngestionFailed ==
    \/ pc = "raised"
    \/ Finished /\ (result.kind = "raise" \/ error_log # <<>>)

\* C15: an ingestion that fails partway leaves no record of the document in
\* the store, be it the index of the batch pipeline or the table of the
\* per-chunk pipeline.
C15_AllOrNothing == IngestionFailed => index = {} /\ db = <<>>

-----------------------------------------------------------------------------
(* The search handler of routers/search.py.  Distances and scores are fixed   *)
(* point numbers: distances in thousandths, rounded scores in hundredths.     *)
(* A text is the sequence of its lines.                                       *)

\* variant of d.get(key) that fills in "unknown" for a missing key
LinkGet_unknown(link_info, key) ==
    IF HasKey(link_info, key) THEN Str(Lookup(link_info, key)) ELSE Str("unknown")

\* d.get(key) on a link dict
LinkGet(link_info, key) ==
    IF HasKey(link_info, key) THEN Str(Lookup(link_info, key)) ELSE PyNone

\* "a or b"
PyOr(a, b) == IF Truthy(a) THEN a ELSE b

\* '\n'.join(lines)
RECURSIVE JoinLines(_)
JoinLines(lines) ==
    IF Len(lines) = 1 THEN lines[1] ELSE lines[1] \o "\n" \o JoinLines(Tail(lines))

\* text.split('\n', 1)
Split1(lines) ==
    IF Len(lines) = 1 THEN <<lines[1]>> ELSE <<lines[1], JoinLines(Tail(lines))>>

\* round(x, 2) of x thousandths, in hundredths; a tie goes to the even digit
Round2(x) ==
    LET q == x \div 10
        r == x % 10
    IN  IF r < 5 THEN q
        ELSE IF r > 5 THEN q + 1
        ELSE IF q % 2 = 0 THEN q ELSE q + 1

\* abs(x)
Abs(x) == IF x < 0 THEN -x ELSE x

\* rows the embeddings table can hold, with the value of each pgvector
\* operator against the query vector: "<->" L2 distance, "<#>" negative inner
\* product, "<=>" cosine distance
StoredRows ==
    << [filename |-> "malware.md",
        metadata |-> [links |-> << << <<"Title", "What is Malware?">>,
                                      <<"Link", "http://example.com/malware">> >> >>],
        embeddings_text |-> <<"{\"links\": 1}", "Malware is software.">>,
        l2 |-> 312, nip |-> -871, cos |-> 123],
       [filename |-> "report.txt",
        metadata |-> [file_key |-> "report.txt"],
        embeddings_text |-> <<"{}", "Quarterly report.", "Appendix.">>,
        l2 |-> 1004, nip |-> 254, cos |-> 1457],
       [filename |-> "phishing.md",
        metadata |-> [links |-> << << <<"Title", "Phishing">>, <<"link", "http://example.com/p">> >>,
                                   << <<"Title", "Phishing, part two">> >> >>],
        embeddings_text |-> <<"{\"links\": 2}", "Phishing is fraud.">>,
        l2 |-> 47, nip |-> -12, cos |-> 996],
       [filename |-> "notes.txt",
        metadata |-> [links |-> << << <<"Link", "http://example.com/n">> >> >>],
        embeddings_text |-> <<"A single line of notes.">>,
        l2 |-> 689, nip |-> -433, cos |-> 502],
       [filename |-> "ransomware.md",
        metadata |-> [links |-> << << <<"Title", "Ransomware">>,
                                      <<"Link", "http://example.com/r">> >> >>],
        embeddings_text |-> <<"{\"links\": 1}", "Ransomware encrypts files.">>,
        l2 |-> 851, nip |-> 643, cos |-> 1214] >>

\* the tables whose rows, in insertion order, are a sub-sequence of StoredRows
RECURSIVE SubSeqs(_)
SubSeqs(s) ==
    IF s = <<>> THEN {<<>>}
    ELSE LET rest == SubSeqs(Tail(s))
         IN  rest \cup {<<Head(s)>> \o t : t \in rest}

SearchTypes == {"euclidean", "inner_product", "cosine", "manhattan"}

\* the request bodies, with the defaults of SearchRequest filled in; a body
\* without "query" has no query field
SearchRequests ==
    [query : {"what is malware", ""}, results_to_return : (-1..MaxResults) \cup {top_k},
     search_type : SearchTypes, probes : {default_probes}, workers : {default_workers}]
    \cup [results_to_return : (-1..MaxResults) \cup {top_k},
          search_type : SearchTypes, probes : {default_probes}, workers : {default_workers}]

\* SearchRequest, lines 14-19: query is the one required field, and no field
\* has a validator
ValidSearchRequest(req) == "query" \in DOMAIN req

TimesElapsed == {0, 20}

\* operator_mapping.get(search_type, "<->")
Operator(search_type) ==
    CASE search_type = "euclidean"     -> "<->"
      [] search_type = "inner_product" -> "<#>"
      [] search_type = "cosine"        -> "<=>"
      [] OTHER                         -> "<->"

\* "embeddings <op> %s::vector AS distance"
Distance(row, operator) ==
    CASE operator = "<->" -> row.l2
      [] operator = "<#>" -> row.nip
      [] operator = "<=>" -> row.cos

\* ORDER BY distance: the orderings of the rows by ascending distance
OrderedBy(rows, operator) ==
    {p \in [1..Len(rows) -> 1..Len(rows)] :
        /\ \A i, j \in 1..Len(rows) : i # j => p[i] # p[j]
        /\ \A i \in 1..(Len(rows) - 1) :
              Distance(rows[p[i]], operator) <= Distance(rows[p[i + 1]], operator)}

\* SELECT filename, metadata, embeddings_text, distance ... LIMIT limit
Fetch(rows, operator, p, limit) ==
    [i \in 1..(IF limit < Len(rows) THEN limit ELSE Len(rows)) |->
        [filename        |-> rows[p[i]].filename,
         metadata        |-> rows[p[i]].metadata,
         embeddings_text |-> rows[p[i]].embeddings_text,
         distance        |-> Distance(rows[p[i]], operator)]]

\* variant that exposes the raw distance whatever the search type
SimilarityScore_raw(search_type, distance) == distance

\* lines 93-96
SimilarityScore(search_type, distance) ==
    IF search_type = "cosine" THEN 1000 - distance
    ELSE IF search_type = "inner_product" THEN Abs(distance)
    ELSE distance

\* lines 98-108: the records one fetched row adds to results
ResultsOf(search_type, row) ==
    LET links == IF "links" \in DOMAIN row.metadata THEN row.metadata.links ELSE <<>>
        text_body == Split1(row.embeddings_text)[2]
    IN  [i \in 1..Len(links) |->
            [Title            |-> LinkGet(links[i], "Title"),
             Link             |-> PyOr(LinkGet(links[i], "Link"), LinkGet(links[i], "link")),
             Filename         |-> row.filename,
             embedding_text   |-> text_body,
             similarity_score |-> Round2(SimilarityScore(search_type, row.distance))]]

\* lines 89-108: results after the loop over the fetched rows
RECURSIVE BuildResults(_, _)
BuildResults(search_type, rows) ==
    IF rows = <<>> THEN <<>>
    ELSE ResultsOf(search_type, Head(rows)) \o BuildResults(search_type, Tail(rows))

\* line 92 raises ValueError: some fetched text has no newline to split at
UnpackRaises(rows) == \E i \in 1..Len(rows) : Len(Split1(rows[i].embeddings_text)) # 2

InitSearch ==
    /\ pc = "search"
    /\ request \in SearchRequests
    /\ db \in SubSeqs(StoredRows)
    /\ conns_out = 0
    /\ error_log = <<>>
    /\ top_results = <<>>
    /\ response = Pending
    /\ username = ""
    /\ file_key = ""
    /\ file_type = ""
    /\ body_content = <<>>
    /\ doc_id = ""
    /\ header = [doc_id |-> PyNone]
    /\ sentences = <<>>
    /\ si = 0
    /\ chunks = <<>>
    /\ chunk = <<>>
    /\ num_tokens = 0
    /\ chunk_no = 0
    /\ records_to_upsert = <<>>
    /\ index = {}
    /\ errors_txt = <<>>
    /\ result = Pending
    /\ args = NoArgs
    /\ s3 = {}
    /\ events = <<>>
    /\ fs = NoFiles
    /\ ret = Pending

\* lines 58-64: model.encode raises before the try block is entered; the
\* exception leaves the handler and the connection taken at line 58 stays out
SearchEncodeRaises ==
    /\ pc = "search"
    /\ ValidSearchRequest(request)
    /\ conns_out' = conns_out + 1
    /\ response' = [status |-> 500, body |-> [detail |-> "Internal Server Error"]]
    /\ pc' = "responded"
    /\ UNCHANGED <<procVars, errors_txt, args, s3, events, fs, ret, db, error_log, request, top_results>>

\* lines 79-84 and 117-122: a statement raises (the server fails, or LIMIT is
\* negative); rollback, {"error": str(e)}, the connection is given back
SearchQueryRaises ==
    /\ pc = "search"
    /\ ValidSearchRequest(request)
    /\ \E e \in {"connection lost", "LIMIT must not be negative"} :
          /\ (e = "LIMIT must not be negative") <=> (request.results_to_return < 0)
          /\ response' = [status |-> 200, body |-> [error |-> e]]
    /\ pc' = "responded"
    /\ UNCHANGED <<procVars, errors_txt, args, s3, events, fs, ret, db, conns_out, error_log, request,
                   top_results>>

\* lines 58-122 with the query succeeding: the rows are fetched and turned
\* into results, or the unpacking of line 92 raises and the error is returned
SearchFetch ==
    /\ pc = "search"
    /\ ValidSearchRequest(request)
    /\ request.results_to_return >= 0
    /\ \E p \in OrderedBy(db, Operator(request.search_type)), t \in TimesElapsed :
          LET rows == Fetch(db, Operator(request.search_type), p, request.results_to_return)
          IN  /\ top_results' = rows
              /\ response' =
                    IF UnpackRaises(rows)
                    THEN [status |-> 200,
                          body |-> [error |-> "not enough values to unpack (expected 2, got 1)"]]
                    ELSE [status |-> 200,
                          body |-> [time_elapsed |-> t,
                                    results |-> BuildResults(request.search_type, rows)]]
    /\ pc' = "responded"
    /\ UNCHANGED <<procVars, errors_txt, args, s3, events, fs, ret, db, conns_out, error_log, request>>

\* the body does not validate as a SearchRequest: the framework answers 422
\* and the handler is not called
SearchUnprocessable ==
    /\ pc = "search"
    /\ ~ValidSearchRequest(request)
    /\ response' = [status |-> 422, body |-> [detail |-> "field required"]]
    /\ pc' = "responded"
    /\ UNCHANGED <<procVars, errors_txt, args, s3, events, fs, ret, db, conns_out, error_log,
                   request, top_results>>

NextSearch ==
    \/ SearchUnprocessable
    \/ SearchEncodeRaises
    \/ SearchQueryRaises
    \/ SearchFetch

SpecSearch == InitSearch /\ [][NextSearch]_vars

-----------------------------------------------------------------------------
\* the search handler answered with the success shape
SearchSucceeded ==
    /\ pc = "responded"
    /\ response.status = 200
    /\ "results" \in DOMAIN response.body

\* the stored row a fetched match was read from
StoredRow(m) == CHOOSE i \in 1..Len(db) : db[i].filename = m.filename

(* C16: every result of a successful search carries similarity_score; the     *)
(* match was queried with the operator of the search type (the euclidean one  *)
(* for euclidean and for an unrecognised type), and the score is 1 - distance *)
(* for cosine, the absolute value of the distance for inner_product and the   *)
(* raw distance otherwise, rounded to two decimals (within half a hundredth). *)
C16_SimilarityScore ==
    SearchSucceeded =>
        /\ \A i \in 1..Len(top_results) :
              LET m == top_results[i]
                  row == db[StoredRow(m)]
              IN  m.distance = IF request.search_type = "cosine" THEN row.cos
                               ELSE IF request.search_type = "inner_product" THEN row.nip
                               ELSE row.l2
        /\ \A j \in 1..Len(response.body.results) :
              LET r == response.body.results[j]
              IN  /\ "similarity_score" \in DOMAIN r
                  /\ \E i \in 1..Len(top_results) :
                        LET d == top_results[i].distance
                            exact == IF request.search_type = "cosine" THEN 1000 - d
                                     ELSE IF request.search_type = "inner_product"
                                          THEN (IF d < 0 THEN 0 - d ELSE d)
                                     ELSE d
                            off == 10 * r.similarity_score - exact
                        IN  /\ top_results[i].filename = r.Filename
                            /\ off <= 5
                            /\ off >= -5

\* an inner-product search exposed positive scores for matches whose operator
\* value is negative
C16_Witness ==
    /\ SearchSucceeded
    /\ request.search_type = "inner_product"
    /\ Len(response.body.results) >= 2
    /\ \A i \in 1..Len(top_results) : top_results[i].distance < 0
    /\ \A j \in 1..Len(response.body.results) : response.body.results[j].similarity_score > 0

(* C17: every search request ends in a response of exactly one of the two     *)
(* shapes {time_elapsed, results} and {error}; no exception of the embedder   *)
(* or of the index leaves the handler.                                        *)
C17_TwoResponses ==
    (pc = "responded" /\ ValidSearchRequest(request)) =>
        /\ response.status = 200
        /\ DOMAIN response.body \in {{"time_elapsed", "results"}, {"error"}}

(* C20: the results list of a successful search holds exactly one record per  *)
(* fetched match, in the order of the matches, and its length is the number   *)
(* of matches, which is at most results_to_return.                            *)
C20_OneRecordPerMatch ==
    SearchSucceeded =>
        /\ Len(response.body.results) = Len(top_results)
        /\ \A i \in 1..Len(top_results) :
              i <= Len(response.body.results)
                  => response.body.results[i].Filename = top_results[i].filename
        /\ Len(response.body.results) <= request.results_to_return

-----------------------------------------------------------------------------
(* User tables: the upload handler and the search handler of build/lib, over  *)
(* one database.  A username is the sequence of its characters; a row keeps   *)
(* the table it was inserted into.                                            *)

LowerChars == {"a", "b", "c", "d", "e", "f", "g", "h", "i", "j", "k", "l", "m",
               "n", "o", "p", "q", "r", "s", "t", "u", "v", "w", "x", "y", "z"}
UpperChars == {"A", "B", "C", "D", "E", "F", "G", "H", "I", "J", "K", "L", "M",
               "N", "O", "P", "Q", "R", "S", "T", "U", "V", "W", "X", "Y", "Z"}
DigitChars == {"0", "1", "2", "3", "4", "5", "6", "7", "8", "9"}
AlnumChars == LowerChars \cup UpperChars \cup DigitChars

\* s.isalnum()
IsAlnum(s) == s # <<>> /\ \A i \in 1..Len(s) : s[i] \in AlnumChars

\* re.match(r"^[a-zA-Z0-9._%+-]+@[a-zA-Z0-9.-]+\.[a-zA-Z]{2,}$", s)
EmailMatch(s) ==
    \E at \in 1..Len(s), dot \in 1..Len(s) :
        /\ s[at] = "@"
        /\ s[dot] = "."
        /\ at > 1
        /\ dot > at + 1
        /\ Len(s) >= dot + 2
        /\ \A i \in 1..(at - 1) : s[i] \in AlnumChars \cup {".", "_", "%", "+", "-"}
        /\ \A i \in (at + 1)..(dot - 1) : s[i] \in AlnumChars \cup {".", "-"}
        /\ \A i \in (dot + 1)..Len(s) : s[i] \in LowerChars \cup UpperChars

\* validate_user_table: the name passes when the validator does not raise
ValidName(s) == IsAlnum(s) \/ EmailMatch(s)

\* the characters of a name as one string
RECURSIVE JoinChars(_)
JoinChars(s) == IF s = <<>> THEN "" ELSE Head(s) \o JoinChars(Tail(s))

\* the names requests come with
Names ==
    {<<"u", "1">>,
     <<"e", "m", "b", "e", "d", "d", "i", "n", "g", "s">>,
     <<"a", ".", "b", "@", "c", ".", "d", "e">>,
     <<"a", "_", "b", "@", "c", ".", "d", "e">>,
     <<"a", "@", "b">>}

\* the table of the shared corpus
SharedTable == <<"e", "m", "b", "e", "d", "d", "i", "n", "g", "s">>

\* the row of the shared corpus
SharedRow ==
    [table           |-> SharedTable,
     owner           |-> <<>>,
     filename        |-> "malware.md",
     metadata        |-> [links |-> << << <<"Title", "What is Malware?">>,
                                         <<"Link", "http://example.com/malware">> >> >>],
     embeddings      |-> <<20, 1>>,
     embeddings_text |-> <<"{\"links\": 1}", "Malware is software.">>]

\* the file a user uploads is named after the user
UploadFileKey(u) == JoinChars(u) \o ".txt"

\* the text every upload carries: one sentence, one chunk
UploadText == <<"s1">>

\* to_regclass(table_name) is not NULL
TableExists(rows, table_name) ==
    table_name = SharedTable \/ \E i \in 1..Len(rows) : rows[i].table = table_name

\* line 77 of build/lib search.py
TableToSearch(user_table) ==
    IF user_table = PyNone THEN SharedTable ELSE TableName(user_table.s)

\* "embeddings <-> %s::vector" for vectors that differ in the first component
L2Distance(embeddings, query_vector) ==
    Abs(embeddings[1] - query_vector[1]) * 1000

\* FROM table_to_search ORDER BY distance: the orderings of the table's rows
TableOrderings(rows, query_vector) ==
    {p \in [1..Len(rows) -> 1..Len(rows)] :
        /\ \A i, j \in 1..Len(rows) : i # j => p[i] # p[j]
        /\ \A i \in 1..(Len(rows) - 1) :
              L2Distance(rows[p[i]].embeddings, query_vector)
                  <= L2Distance(rows[p[i + 1]].embeddings, query_vector)}

\* the rows the query of lines 85-95 fetches
FetchTable(rows, p, query_vector, limit) ==
    [i \in 1..(IF limit < Len(rows) THEN limit ELSE Len(rows)) |->
        [filename        |-> rows[p[i]].filename,
         metadata        |-> rows[p[i]].metadata,
         embeddings_text |-> rows[p[i]].embeddings_text,
         distance        |-> L2Distance(rows[p[i]].embeddings, query_vector)]]

\* lines 101-131 of build/lib search.py: the record of one fetched row
ResultData(search_type, row) ==
    LET parts == Split1(row.embeddings_text)
        text_body == IF Len(parts) > 1 THEN parts[2] ELSE parts[1]
        score == Round2(SimilarityScore(search_type, row.distance))
        links == IF "links" \in DOMAIN row.metadata THEN row.metadata.links ELSE <<>>
        last == links[Len(links)]
    IN  IF links # <<>>
        THEN [Title            |-> LinkGet(last, "Title"),
              Link             |-> PyOr(LinkGet(last, "Link"), LinkGet(last, "link")),
              Filename         |-> row.filename,
              embedding_text   |-> text_body,
              similarity_score |-> score]
        ELSE ("File Name" :> Get(row.metadata, "file_key"))
             @@ ("File Type" :> Get(row.metadata, "file_type"))
             @@ [embedding_text |-> text_body, similarity_score |-> score]

TableRequests ==
    [query : {"what is malware"}, results_to_return : {top_k},
     search_type : {"euclidean"}, probes : {5}, workers : {default_workers},
     user_table : {PyNone} \cup {Str(n) : n \in Names}]

InitTables ==
    /\ pc = "serving"
    /\ db = <<SharedRow>>
    /\ request = NoRequest
    /\ conns_out = 0
    /\ error_log = <<>>
    /\ top_results = <<>>
    /\ response = Pending
    /\ username = <<>>
    /\ file_key = ""
    /\ file_type = "text"
    /\ body_content = <<>>
    /\ doc_id = ""
    /\ header = [doc_id |-> PyNone]
    /\ sentences = <<>>
    /\ si = 0
    /\ chunks = <<>>
    /\ chunk = <<>>
    /\ num_tokens = 0
    /\ chunk_no = 0
    /\ records_to_upsert = <<>>
    /\ index = {}
    /\ errors_txt = <<>>
    /\ result = Pending
    /\ args = NoArgs
    /\ s3 = {}
    /\ events = <<>>
    /\ fs = NoFiles
    /\ ret = Pending

\* upload.py line 72 of build/lib: the validator raises
UploadRejected ==
    /\ pc = "serving"
    /\ \E u \in Names :
          /\ ~ValidName(u)
          /\ username' = u
    /\ response' = [status |-> 422,
                    body |-> [detail |-> "username must be an alphanumeric value or a valid email address."]]
    /\ UNCHANGED <<pc, file_key, file_type, body_content, doc_id, header, sentences, si,
                   chunks, chunk, num_tokens, chunk_no, records_to_upsert, index, result,
                   errors_txt, args, s3, events, fs, ret, db, conns_out, error_log, request, top_results>>

\* upload, process_text and process_file of build/lib upload.py for a text of
\* one chunk: the table is created when it is missing and the row inserted
UploadText1 ==
    /\ pc = "serving"
    /\ Len(db) < MaxRows
    /\ \E u \in Names, d \in DocIds :
          /\ ValidName(u)
          /\ username' = u
          /\ file_key' = UploadFileKey(u)
          /\ doc_id' = d
          /\ header' = [doc_id |-> Str(d), file_key |-> Str(UploadFileKey(u)),
                        file_type |-> Str(file_type)]
          /\ db' = Append(db, Row(u, UploadFileKey(u), header',
                                  Encode(JoinLines(UploadText)), UploadText))
    /\ response' = [status |-> 200, body |-> [success |-> "Text processed successfully"]]
    /\ UNCHANGED <<pc, file_type, body_content, sentences, si, chunks, chunk, num_tokens,
                   chunk_no, records_to_upsert, index, result, errors_txt, args, s3, events, fs, ret,
                   conns_out, error_log, request, top_results>>

\* build/lib search.py lines 23-31: the validator raises
SearchRejected ==
    /\ pc = "serving"
    /\ \E r \in TableRequests :
          /\ r.user_table # PyNone
          /\ ~ValidName(r.user_table.s)
          /\ request' = r
    /\ top_results' = <<>>
    /\ response' = [status |-> 422,
                    body |-> [detail |-> "user_table must be an alphanumeric value or a valid email address."]]
    /\ UNCHANGED <<procVars, pc, errors_txt, args, s3, events, fs, ret, db, conns_out, error_log>>

\* build/lib search.py lines 69-146 when the table does not exist: the query
\* raises inside the try
SearchNoTable ==
    /\ pc = "serving"
    /\ \E r \in TableRequests :
          /\ r.user_table # PyNone => ValidName(r.user_table.s)
          /\ ~TableExists(db, TableToSearch(r.user_table))
          /\ request' = r
          /\ response' = [status |-> 200,
                          body |-> [error |-> "relation \"" \o JoinChars(TableToSearch(r.user_table))
                                              \o "\" does not exist"]]
    /\ top_results' = <<>>
    /\ UNCHANGED <<procVars, pc, errors_txt, args, s3, events, fs, ret, db, conns_out, error_log>>

\* build/lib search.py lines 69-146 with the query succeeding
SearchTable ==
    /\ pc = "serving"
    /\ \E r \in TableRequests, t \in TimesElapsed :
          LET table_to_search == TableToSearch(r.user_table)
              rows == SelectSeq(db, LAMBDA row : row.table = table_to_search)
              query_vector == ToList(embeddings_array(Encode(r.query)))
          IN  /\ r.user_table # PyNone => ValidName(r.user_table.s)
              /\ TableExists(db, table_to_search)
              /\ request' = r
              /\ \E p \in TableOrderings(rows, query_vector) :
                    /\ top_results' = FetchTable(rows, p, query_vector, r.results_to_return)
                    /\ response' =
                          [status |-> 200,
                           body |-> [time_elapsed |-> t,
                                     results |-> [i \in 1..Len(top_results') |->
                                                    ResultData(r.search_type, top_results'[i])]]]
    /\ UNCHANGED <<procVars, pc, errors_txt, args, s3, events, fs, ret, db, conns_out, error_log>>

NextTables ==
    \/ UploadRejected
    \/ UploadText1
    \/ SearchRejected
    \/ SearchNoTable
    \/ SearchTable

SpecTables == InitTables /\ [][NextTables]_vars

-----------------------------------------------------------------------------
\* the last request was a search and it was answered with results
SearchAnswered ==
    /\ request # NoRequest
    /\ response.status = 200
    /\ "results" \in DOMAIN response.body

\* the file a result record names
ResultFile(r) == IF "Filename" \in DOMAIN r THEN r.Filename ELSE r["File Name"].s

\* the result record comes from an upload of user u
UploadedBy(r, u) == "File Name" \in DOMAIN r /\ r["File Name"] = Str(UploadFileKey(u))

\* the result record is a record of the shared corpus
OfSharedCorpus(r) == "Filename" \in DOMAIN r /\ r.Filename = SharedRow.filename

\* the results are exactly the rows of table t
ResultsAreTable(t) ==
    LET inTable == {i \in 1..Len(db) : db[i].table = t}
        results == response.body.results
    IN  /\ Len(results) = Cardinality(inTable)
        /\ \A j \in 1..Len(results) : \E i \in inTable : db[i].filename = ResultFile(results[j])
        /\ \A i \in inTable : \E j \in 1..Len(results) : db[i].filename = ResultFile(results[j])

(* C18: a search without user_table returns exactly the rows of the shared    *)
(* store; a search with user_table = u, u a user who has uploaded, returns    *)
(* exactly the rows of the store the uploads of u went to, and none of them   *)
(* is a record of the shared corpus.                                          *)
C18_ScopedLookup ==
    SearchAnswered =>
        /\ request.user_table = PyNone => ResultsAreTable(SharedTable)
        /\ request.user_table # PyNone =>
              \A i \in 1..Len(db) :
                  db[i].owner = request.user_table.s =>
                      /\ ResultsAreTable(db[i].table)
                      /\ \A j \in 1..Len(response.body.results) :
                            ~OfSharedCorpus(response.body.results[j])

(* C19: a search scoped to user u2 returns no record uploaded by another      *)
(* valid user u1, and an unscoped search returns no record uploaded by any    *)
(* user.                                                                      *)
C19_NamespaceIsolation ==
    SearchAnswered =>
        \A j \in 1..Len(response.body.results), u1 \in Names :
            (ValidName(u1) /\ UploadedBy(response.body.results[j], u1)) =>
                /\ request.user_table # PyNone
                /\ request.user_table.s = u1

-----------------------------------------------------------------------------
\* the metadata fields of a result record of the search handler
ResultMetadataFields == {"Title", "Link"}

StoredLinks(m) == IF "links" \in DOMAIN m.metadata THEN m.metadata.links ELSE <<>>

-----------------------------------------------------------------------------
(* C22: a successful upload response carries doc_id and original_filename;    *)
(* doc_id is the identifier process_file generated for the document and       *)
(* original_filename is the name of the uploaded file.                        *)
C22_UploadResponse ==
    (pc = "responded" /\ response.status = 200) =>
        /\ response.doc_id = Str(doc_id)
        /\ response.original_filename = Str(file_key)

-----------------------------------------------------------------------------
(* verify_token of utils/auth.py, called directly.  A token is what jose      *)
(* decodes from it: whether it has the three-part form, its header, whether   *)
(* its signature verifies under the key the kid names, and its claims.        *)

\* time.time() at the moment of the call
Now == 1000

\* self.issuer and self.client_id
Issuer == "https://cognito-idp.us-east-1.amazonaws.com/pool"
ClientId == "client-1"

\* the kids of self.jwks
KnownKids == {"k1"}

\* the dicts with key k bound to one of vals, and the empty dict
Optional(k, vals) == {<<>>} \cup {(k :> v) : v \in vals}

TokenHeaders == {[alg |-> "RS256"] @@ h : h \in Optional("kid", {"k1", "k9"})}

TokenClaims ==
    {(("cognito:username" :> "alice") @@ e @@ i @@ c @@ a @@ t) :
        e \in Optional("exp", {Now - 1, Now, Now + 1}),
        i \in Optional("iss", {Issuer, "https://evil.example"}),
        c \in Optional("client_id", {ClientId}),
        a \in Optional("aud", {ClientId, "client-2"}),
        t \in Optional("token_use", {"id", "access"})}

Tokens ==
    [is_jwt : BOOLEAN, headers : TokenHeaders, signature_ok : BOOLEAN, claims : TokenClaims]

\* the processes-file variables of a specification that does not run process_file
ProcessFileIdle ==
    /\ username = ""
    /\ file_key = ""
    /\ file_type = ""
    /\ body_content = <<>>
    /\ doc_id = ""
    /\ header = [doc_id |-> PyNone]
    /\ sentences = <<>>
    /\ si = 0
    /\ chunks = <<>>
    /\ chunk = <<>>
    /\ num_tokens = 0
    /\ chunk_no = 0
    /\ records_to_upsert = <<>>
    /\ index = {}
    /\ errors_txt = <<>>
    /\ result = Pending

\* the database and handler variables of a specification without a handler
WebIdle ==
    /\ db = <<>>
    /\ conns_out = 0
    /\ error_log = <<>>
    /\ request = NoRequest
    /\ top_results = <<>>
    /\ response = Pending

\* claims.get("client_id", claims.get("aud")); "" stands for None
Audience(claims) ==
    IF "client_id" \in DOMAIN claims THEN claims["client_id"]
    ELSE IF "aud" \in DOMAIN claims THEN claims["aud"]
    ELSE ""

Returns(v) == [kind |-> "return", value |-> v]
Raises(exc) == [kind |-> "raise", exc |-> exc]

\* _get_verified_claims, lines 143-167: what it does to verify_token's outcome
verified_claims(claims) ==
    IF "exp" \notin DOMAIN claims THEN Raises("KeyError")
    ELSE IF claims["exp"] < Now THEN Returns(PyNone)
    ELSE IF "iss" \notin DOMAIN claims THEN Raises("KeyError")
    ELSE IF claims["iss"] # Issuer THEN Returns(PyNone)
    ELSE IF Audience(claims) # ClientId THEN Returns(PyNone)
    ELSE IF "token_use" \notin DOMAIN claims THEN Raises("KeyError")
    ELSE IF claims["token_use"] # "id" THEN Returns(PyNone)
    ELSE Returns(claims)

\* verify_token, lines 56-74, with _is_jwt and _get_verified_header: a
\* CognitoError becomes None, any other exception leaves the function
verify_token(token) ==
    IF ~token.is_jwt THEN Returns(PyNone)
    ELSE IF "kid" \notin DOMAIN token.headers THEN Raises("KeyError")
    ELSE IF token.headers["kid"] \notin KnownKids THEN Returns(PyNone)
    ELSE IF ~token.signature_ok THEN Returns(PyNone)
    ELSE verified_claims(token.claims)

InitAuth ==
    /\ pc = "call"
    /\ args \in Tokens
    /\ ret = Pending
    /\ s3 = {}
    /\ events = <<>>
    /\ fs = NoFiles
    /\ ProcessFileIdle
    /\ WebIdle

CallVerifyToken ==
    /\ pc = "call"
    /\ ret' = verify_token(args)
    /\ pc' = "returned"
    /\ UNCHANGED <<procVars, errors_txt, args, s3, events, fs, webVars>>

NextAuth == CallVerifyToken

SpecAuth == InitAuth /\ [][NextAuth]_vars

\* every check the token has to pass
AllChecksPass(token) ==
    /\ token.is_jwt
    /\ "kid" \in DOMAIN token.headers
    /\ token.headers["kid"] \in KnownKids
    /\ token.signature_ok
    /\ "exp" \in DOMAIN token.claims
    /\ token.claims["exp"] >= Now
    /\ "iss" \in DOMAIN token.claims
    /\ token.claims["iss"] = Issuer
    /\ \/ "client_id" \in DOMAIN token.claims /\ token.claims["client_id"] = ClientId
       \/ "client_id" \notin DOMAIN token.claims /\ "aud" \in DOMAIN token.claims
              /\ token.claims["aud"] = ClientId
    /\ "token_use" \in DOMAIN token.claims
    /\ token.claims["token_use"] = "id"

(* C26: verify_token returns the claims of a token that passes every check,   *)
(* and for every other token it returns None and does not raise.              *)
C26_ClaimsOrNone ==
    pc = "returned" =>
        /\ ret.kind = "return"
        /\ ret = IF AllChecksPass(args) THEN Returns(args.claims) ELSE Returns(PyNone)

-----------------------------------------------------------------------------
(* POST /upload of routers/download.py: get_auth, the handler body, the       *)
(* processor of the file type and process_file.  The Authorization header is  *)
(* the sequence of its space-separated parts.                                 *)

\* a token that passes every check, carrying a subscription level
SignedToken(subscription) ==
    [is_jwt |-> TRUE, headers |-> [alg |-> "RS256", kid |-> "k1"], signature_ok |-> TRUE,
     claims |-> ("cognito:username" :> "alice") @@ subscription
                @@ [exp |-> Now + 1, iss |-> Issuer, aud |-> ClientId, token_use |-> "id"]]

HandlerTokens ==
    {SignedToken(s) : s \in Optional("custom:subscription", {"ProMonthly", "ProYearly", "Free"})}
    \cup {[SignedToken(<<>>) EXCEPT !.signature_ok = FALSE],
          [SignedToken(<<>>) EXCEPT !.is_jwt = FALSE],
          [SignedToken(<<>>) EXCEPT !.headers = [alg |-> "RS256"]]}

AuthorizationHeaders ==
    {<<>>, <<"Bearer">>} \cup {<<"Bearer", t>> : t \in HandlerTokens}

\* the values of the FileType enum
FileTypeValues == {"audio", "video", "image", "pdf", "text"}

\* the texts an upload carries or its extraction yields
HandlerBodies == {<<>>, <<"s100a">>, <<"s157", "s100a">>}

HandlerRequests ==
    [authorization : AuthorizationHeaders,
     file_type     : FileTypeValues \cup {"exe"},
     filename      : {"report.txt"},
     mime_matches  : BOOLEAN,
     body          : HandlerBodies]

InitHandler ==
    /\ pc = "auth"
    /\ request \in HandlerRequests
    /\ db = <<>>
    /\ conns_out = 0
    /\ error_log = <<>>
    /\ top_results = <<>>
    /\ response = Pending
    /\ args = NoArgs
    /\ ret = Pending
    /\ s3 = {}
    /\ events = <<>>
    /\ fs = NoFiles
    /\ ProcessFileIdle

\* the response of an HTTPException, and of an exception nobody handles
HttpError(status, detail) == [status |-> status, detail |-> detail]
ServerError == HttpError(500, "Internal Server Error")

\* get_auth, lines 214-223 of utils/auth.py: what the dependency yields
get_auth(authorization) ==
    IF authorization = <<>>
    THEN [kind |-> "http", response |-> HttpError(401, "Missing Authorization header")]
    ELSE IF Len(authorization) < 2
    THEN [kind |-> "http", response |-> ServerError]
    ELSE LET verified == verify_token(authorization[2])
         IN  IF verified.kind = "raise"
             THEN [kind |-> "http", response |-> ServerError]
             ELSE IF verified.value = PyNone
             THEN [kind |-> "http", response |-> HttpError(401, "Invalid token")]
             ELSE [kind |-> "claims", claims |-> verified.value]

\* the dependency of the handler is resolved
GetAuth ==
    /\ pc = "auth"
    /\ LET auth == get_auth(request.authorization)
       IN  IF auth.kind = "http"
           THEN /\ response' = auth.response
                /\ pc' = "responded"
                /\ UNCHANGED ret
           ELSE /\ ret' = auth.claims
                /\ pc' = "subscription"
                /\ UNCHANGED response
    /\ UNCHANGED <<procVars, errors_txt, args, s3, events, fs, db, conns_out, error_log,
                   request, top_results>>

\* download.py lines 175-178
CheckSubscription ==
    /\ pc = "subscription"
    /\ username' = ret["cognito:username"]
    /\ IF "custom:subscription" \in DOMAIN ret
          /\ ret["custom:subscription"] \in {"ProMonthly", "ProYearly"}
       THEN pc' = "file_type" /\ UNCHANGED response
       ELSE /\ response' = HttpError(403, "You must have a Pro subscription to upload files.")
            /\ pc' = "responded"
    /\ UNCHANGED <<file_key, file_type, body_content, doc_id, header, sentences, si, chunks,
                   chunk, num_tokens, chunk_no, records_to_upsert, index, result, errors_txt,
                   args, s3, events, fs, ret, db, conns_out, error_log, request, top_results>>

\* download.py lines 179-182
CheckFileType ==
    /\ pc = "file_type"
    /\ IF request.file_type \in FileTypeValues
       THEN pc' = "s3" /\ file_type' = request.file_type /\ UNCHANGED response
       ELSE /\ response' = HttpError(400, "Invalid file type: " \o request.file_type)
            /\ pc' = "responded"
            /\ UNCHANGED file_type
    /\ UNCHANGED <<username, file_key, body_content, doc_id, header, sentences, si, chunks,
                   chunk, num_tokens, chunk_no, records_to_upsert, index, result, errors_txt,
                   args, s3, events, fs, ret, db, conns_out, error_log, request, top_results>>

\* download.py lines 183-187: the file is stored under username/files/filename
S3Store ==
    /\ pc = "s3"
    /\ s3' = s3 \cup {username \o "/files/" \o request.filename}
    /\ events' = Append(events, "s3_store")
    /\ pc' = "processor"
    /\ UNCHANGED <<procVars, errors_txt, args, fs, ret, webVars>>

\* the MIME check of the processor fails (download.py lines 38, 56, 78, 104, 148)
ProcessorRejects ==
    /\ pc = "processor"
    /\ ~request.mime_matches
    /\ response' = HttpError(400, "Invalid file type. Please upload a valid "
                                  \o file_type \o " file.")
    /\ pc' = "responded"
    /\ UNCHANGED <<procVars, errors_txt, args, s3, events, fs, ret, db, conns_out, error_log,
                   request, top_results>>

\* the processor extracts the text (transcription, OCR, or decoding for a text
\* file) and calls process_file, all inside the request
ProcessorExtracts ==
    /\ pc = "processor"
    /\ request.mime_matches
    /\ events' = events \o (IF file_type = "text" THEN <<>> ELSE <<"extract">>)
                        \o <<"process_file">>
    /\ file_key' = request.filename
    /\ body_content' = request.body
    /\ pc' = "start"
    /\ UNCHANGED <<username, file_type, doc_id, header, sentences, si, chunks, chunk,
                   num_tokens, chunk_no, records_to_upsert, index, result, errors_txt,
                   args, s3, fs, ret, webVars>>

\* the "success" text of each processor
SuccessText(ft) ==
    CASE ft = "audio" -> "Audio processing started"
      [] ft = "video" -> "Video processing started"
      [] ft = "image" -> "Image processing complete"
      [] ft = "pdf"   -> "PDF processing complete"
      [] ft = "text"  -> "Text processing complete"

\* what the processor of the file type makes of process_file's outcome
HandlerResponse(ft, res) ==
    IF res.kind = "return"
    THEN IF ft = "video"
         THEN [status |-> 200, success |-> SuccessText(ft)]
         ELSE [status |-> 200, success |-> SuccessText(ft),
               doc_id |-> List(res.local_corpus),
               original_filename |-> List(res.local_corpus_embeddings)]
    ELSE IF res.exc = "ValueError"
    THEN HttpError(500, res.error)
    ELSE ServerError

\* download.py lines 189-190: the handler returns what the processor returned
HandlerRespond ==
    /\ pc \in {"done", "raised"}
    /\ response' = HandlerResponse(file_type, result)
    /\ pc' = "responded"
    /\ UNCHANGED <<procVars, errors_txt, args, s3, events, fs, ret, db, conns_out, error_log,
                   request, top_results>>

NextHandler ==
    \/ GetAuth
    \/ CheckSubscription
    \/ CheckFileType
    \/ S3Store
    \/ ProcessorRejects
    \/ ProcessorExtracts
    \/ Start
    \/ ChunkSentence
    \/ FinishChunking
    \/ ProcessChunk
    \/ EncodeRaises
    \/ BatchUpsertOk
    \/ BatchUpsertFails
    \/ BatchUpsertEmpty
    \/ HandlerRespond

SpecHandler == InitHandler /\ [][NextHandler]_vars

-----------------------------------------------------------------------------
\* event e is in the record of what the handler did
Happened(e) == \E i \in 1..Len(events) : events[i] = e

(* C23: an upload request answered with status 400 (file_type outside the     *)
(* enum, or content whose MIME type does not match the file_type) has had no  *)
(* side effect: nothing was stored in S3 and process_file was not called.     *)
C23_RejectedBeforeEffects ==
    (pc = "responded" /\ response.status = 400) =>
        /\ s3 = {}
        /\ ~Happened("s3_store")
        /\ ~Happened("process_file")

\* the Authorization header carries a token that passes every check
TokenAccepted ==
    /\ Len(request.authorization) >= 2
    /\ AllChecksPass(request.authorization[2])

(* C25: for a request whose Authorization header is missing, has no token     *)
(* part, or carries a token verify_token does not accept, the body of the     *)
(* upload handler never runs and the answer is 401.                           *)
C25_AuthGate ==
    (pc # "auth" /\ ~TokenAccepted) =>
        /\ pc = "responded"
        /\ response.status = 401
        /\ s3 = {}
        /\ events = <<>>
        /\ index = {}

(* C27: for an upload that needs an extraction step (audio, video, image,     *)
(* pdf) the response is returned before extraction and process_file start:    *)
(* whenever either has started, the response has already been given.          *)
C27_ResponseFirst ==
    (file_type \in {"audio", "video", "image", "pdf"}
        /\ (Happened("extract") \/ Happened("process_file")))
    => response # Pending

-----------------------------------------------------------------------------
(* C24: a search request whose query is missing or empty, or whose            *)
(* results_to_return is negative, is answered with status 422 and neither the *)
(* embedder nor the index has been used for it.                               *)
C24_Unprocessable ==
    (pc = "responded"
        /\ ("query" \notin DOMAIN request
               \/ request.query = ""
               \/ request.results_to_return < 0))
    => /\ response.status = 422
       /\ top_results = <<>>
       /\ conns_out = 0

-----------------------------------------------------------------------------
(* C28: every connection an operation takes from the pool is given back       *)
(* before the operation ends, on success and on every error path: between     *)
(* operations no connection is out of the pool.                               *)
C28_ConnectionsReturned == conns_out = 0

-----------------------------------------------------------------------------
(* C29: the results of a successful search are ordered from most to least     *)
(* similar by their similarity_score: scores do not decrease for euclidean    *)
(* and do not increase for cosine and for inner_product.                      *)
C29_OrderedByScore ==
    SearchSucceeded =>
        \A j \in 1..(Len(response.body.results) - 1) :
            LET a == response.body.results[j].similarity_score
                b == response.body.results[j + 1].similarity_score
            IN  /\ request.search_type = "euclidean" => a <= b
                /\ request.search_type \in {"cosine", "inner_product"} => a >= b

-----------------------------------------------------------------------------
(* POST /speech2text, its background task and GET /speech2text/{id} of        *)
(* routers/speech2text.py.  The server runs several worker processes over one *)
(* transcriptions directory, so a GET may be served between any two file      *)
(* operations of background_process.  A text is the sequence of its words; a  *)
(* file holds the words that have reached it.                                 *)

\* the longest audio, in seconds, that is transcribed inside the request
MaxInlineDuration == 20

SpeechRequests ==
    [filename : {"talk.mp3", "talk.wav"},
     duration : {MaxInlineDuration, MaxInlineDuration + 1},
     text     : {<<"hello">>, <<"hello", "world">>}]

\* the name NamedTemporaryFile gives the upload
TempName == "/tmp/tmpa1b2c3"

\* os.path.splitext(filename)[1] for the file names of SpeechRequests
Extension(filename) ==
    CASE filename = "talk.mp3" -> ".mp3"
      [] filename = "talk.wav" -> ".wav"

\* the proper prefixes of a text: what a write that fails has left in the file
ProperPrefixes(text) == {SubSeq(text, 1, k) : k \in 0..(Len(text) - 1)}

InitSpeech ==
    /\ pc = "post"
    /\ request \in SpeechRequests
    /\ db = <<>>
    /\ conns_out = 0
    /\ error_log = <<>>
    /\ top_results = <<>>
    /\ response = Pending
    /\ args = NoArgs
    /\ ret = Pending
    /\ s3 = {}
    /\ events = <<>>
    /\ fs = NoFiles
    /\ ProcessFileIdle

SpeechFrame ==
    UNCHANGED <<procVars, errors_txt, args, s3, db, conns_out, request, top_results>>

\* lines 29-31: the extension is not .mp3
SpeechRejects ==
    /\ pc = "post"
    /\ Extension(request.filename) # ".mp3"
    /\ response' = [of |-> "post", status |-> 400,
                    body |-> [detail |-> "Unsupported file extension for audio"]]
    /\ pc' = "responded"
    /\ UNCHANGED <<events, fs, ret, error_log>>
    /\ SpeechFrame

\* lines 33-46: a long audio is handed to a background task under a new id
SpeechDefers ==
    /\ pc = "post"
    /\ Extension(request.filename) = ".mp3"
    /\ request.duration > MaxInlineDuration
    /\ \E id \in DocIds :
          /\ doc_id' = id
          /\ response' = [of |-> "post", status |-> 200,
                          body |-> [status |-> "processing",
                                    message |-> "File is being processed. Check back later.",
                                    file_id |-> id]]
    /\ fs' = [fs EXCEPT !.temp = @ \cup {TempName}]
    /\ pc' = "bg_start"
    /\ UNCHANGED <<username, file_key, file_type, body_content, header, sentences, si,
                   chunks, chunk, num_tokens, chunk_no, records_to_upsert, index, result,
                   errors_txt, args, s3, events, ret, db, conns_out, error_log, request,
                   top_results>>

\* lines 33-56: a short audio is transcribed inside the request; the
\* temporary file is removed in the finally
SpeechInline ==
    /\ pc = "post"
    /\ Extension(request.filename) = ".mp3"
    /\ request.duration <= MaxInlineDuration
    /\ \/ /\ response' = [of |-> "post", status |-> 200, body |-> [transcript |-> request.text]]
          /\ UNCHANGED error_log
       \/ /\ response' = [of |-> "post", status |-> 500,
                          body |-> [detail |-> "Error processing audio file"]]
          /\ error_log' = Append(error_log, "Error processing audio file: " \o request.filename)
    /\ pc' = "responded"
    /\ UNCHANGED <<events, fs, ret>>
    /\ SpeechFrame

\* lines 39-41: mediainfo reports no duration; the exception leaves the
\* handler before the try, and the temporary file stays
SpeechNoDuration ==
    /\ pc = "post"
    /\ Extension(request.filename) = ".mp3"
    /\ response' = [of |-> "post", status |-> 500, body |-> [detail |-> "Internal Server Error"]]
    /\ fs' = [fs EXCEPT !.temp = @ \cup {TempName}]
    /\ pc' = "responded"
    /\ UNCHANGED <<events, ret, error_log>>
    /\ SpeechFrame

\* background_process lines 16-18: the transcription succeeds
BgTranscribe ==
    /\ pc = "bg_start"
    /\ ret' = request.text
    /\ pc' = "bg_transcribed"
    /\ UNCHANGED <<events, fs, response, error_log>>
    /\ SpeechFrame

\* background_process lines 17, 21-22: the transcription raises
BgTranscribeFails ==
    /\ pc = "bg_start"
    /\ error_log' = Append(error_log, "Error processing audio file: " \o TempName)
    /\ pc' = "bg_failed"
    /\ UNCHANGED <<events, fs, ret, response>>
    /\ SpeechFrame

\* line 19: open(..., "w") creates the file, empty
BgOpen ==
    /\ pc = "bg_transcribed"
    /\ fs' = [fs EXCEPT !.transcriptions = (doc_id :> <<>>) @@ @]
    /\ pc' = "bg_open"
    /\ UNCHANGED <<events, ret, response, error_log>>
    /\ SpeechFrame

\* line 20 and the end of the with block: the text reaches the file
BgWrite ==
    /\ pc = "bg_open"
    /\ fs' = [fs EXCEPT !.transcriptions = (doc_id :> ret) @@ @]
    /\ pc' = "bg_written"
    /\ UNCHANGED <<events, ret, response, error_log>>
    /\ SpeechFrame

\* lines 20-22: writing raises (disk full, text that cannot be encoded); part
\* of the text may have reached the file, which stays
BgWriteFails ==
    /\ pc = "bg_open"
    /\ \E part \in ProperPrefixes(ret) :
          fs' = [fs EXCEPT !.transcriptions = (doc_id :> part) @@ @]
    /\ error_log' = Append(error_log, "Error processing audio file: " \o TempName)
    /\ pc' = "bg_failed"
    /\ UNCHANGED <<events, ret, response>>
    /\ SpeechFrame

\* lines 23-24: the finally removes the temporary audio file
BgUnlink ==
    /\ pc \in {"bg_written", "bg_failed"}
    /\ fs' = [fs EXCEPT !.temp = @ \ {TempName}]
    /\ pc' = "bg_done"
    /\ UNCHANGED <<events, ret, response, error_log>>
    /\ SpeechFrame

\* the GET requests served so far
Gets == Cardinality({i \in 1..Len(events) : events[i] \in {"get_404", "get_200"}})

\* get_transcription, lines 66-83, for the id the POST answered with
GetTranscription ==
    /\ pc \notin {"post", "responded"}
    /\ Gets < MaxGets
    /\ IF doc_id \in DOMAIN fs.transcriptions
       THEN /\ response' = [of |-> "get", status |-> 200,
                            body |-> [transcript |-> fs.transcriptions[doc_id]]]
            /\ events' = Append(events, "get_200")
       ELSE /\ response' = [of |-> "get", status |-> 404,
                            body |-> [detail |-> "Transcription still processing or not found."]]
            /\ events' = Append(events, "get_404")
    /\ UNCHANGED <<pc, fs, ret, error_log>>
    /\ SpeechFrame

\* delete_file_with_delay, lines 58-64, scheduled by a GET that found the
\* file; its delay of 300 seconds outlasts the writing of the file
DeleteFileWithDelay ==
    /\ \E i \in 1..Len(events) : events[i] = "get_200"
    /\ doc_id \in DOMAIN fs.transcriptions
    /\ pc = "bg_done"
    /\ fs' = [fs EXCEPT !.transcriptions =
                 [k \in DOMAIN @ \ {doc_id} |-> @[k]]]
    /\ UNCHANGED <<pc, events, ret, response, error_log>>
    /\ SpeechFrame

NextSpeech ==
    \/ SpeechRejects
    \/ SpeechDefers
    \/ SpeechInline
    \/ SpeechNoDuration
    \/ BgTranscribe
    \/ BgTranscribeFails
    \/ BgOpen
    \/ BgWrite
    \/ BgWriteFails
    \/ BgUnlink
    \/ GetTranscription
    \/ DeleteFileWithDelay

SpecSpeech == InitSpeech /\ [][NextSpeech]_vars

(* C30: a GET for a transcription started in the background answers 404 or    *)
(* the complete transcription text, never an empty or partly written one, and *)
(* once background_process has ended the temporary audio file is gone.        *)
C30_CompleteOrNotFound ==
    /\ (response # Pending /\ response.of = "get") =>
          \/ response.status = 404
          \/ response.status = 200 /\ response.body.transcript = request.text
    /\ pc = "bg_done" => TempName \notin fs.temp

====
